---- MODULE Spec2Model ----
(***************************************************************************)
(* Model of FirebaseService (src/unnamed/part_001): the in-memory session  *)
(* store, the intensity history and the latest-result store, with the      *)
(* handlers startSession, saveEnvironmentData, resetSession, saveSession.  *)
(*                                                                         *)
(* Units.  Temperatures are whole degrees Celsius, humidity whole percent, *)
(* gas whole ppm, heart rate whole bpm.  A heat index is held in tenths of *)
(* a degree (the code rounds it to one decimal), a predicted heat-index    *)
(* trend in tenths of a degree, a normalised component in thousandths, the *)
(* raw score in 1/4000 and an intensity before rounding in thousandths.    *)
(* Square root and the 0.8 power are rounded down to that resolution; all  *)
(* other arithmetic is exact.                                              *)
(***************************************************************************)
EXTENDS Integers, Sequences, FiniteSets, TLC

(***************************************************************************)
(* JavaScript values of the request fields: a finite number, NaN, an       *)
(* absent field (undefined) or a non-numeric string.                       *)
(***************************************************************************)
Num(n) == [type |-> "number", nan |-> FALSE, n |-> n]
NaN == [type |-> "number", nan |-> TRUE, n |-> 0]
Undefined == [type |-> "undefined", nan |-> FALSE, n |-> 0]
Str == [type |-> "string", nan |-> FALSE, n |-> 0]

IsFiniteNum(v) == v.type = "number" /\ ~v.nan

\* Number(value): undefined and a non-numeric string convert to NaN.
ToNumber(v) == IF IsFiniteNum(v) THEN v ELSE NaN

\* value || 0 : undefined, NaN and 0 are falsy, a non-empty string is not.
OrZero(v) == IF v.type = "string" THEN v ELSE IF IsFiniteNum(v) THEN v ELSE Num(0)

(***************************************************************************)
(* Exact arithmetic on naturals too large for one machine integer: a       *)
(* number is a tuple of Width limbs in base Base, least significant first. *)
(***************************************************************************)
Base == 10000
Width == 7

BigOf(n) == [i \in 1..Width |-> CASE i = 1 -> n % Base
                                  [] i = 2 -> (n \div Base) % Base
                                  [] i = 3 -> n \div (Base * Base)
                                  [] OTHER -> 0]

RECURSIVE BigMulFrom(_, _, _, _)
BigMulFrom(a, k, i, carry) ==
  IF i > Width THEN <<>>
  ELSE LET v == a[i] * k + carry
       IN  <<v % Base>> \o BigMulFrom(a, k, i + 1, v \div Base)

\* a * k for a small natural k
BigMul(a, k) == BigMulFrom(a, k, 1, 0)

RECURSIVE BigAddFrom(_, _, _, _)
BigAddFrom(a, b, i, carry) ==
  IF i > Width THEN <<>>
  ELSE LET v == a[i] + b[i] + carry
       IN  <<v % Base>> \o BigAddFrom(a, b, i + 1, v \div Base)

BigAdd(a, b) == BigAddFrom(a, b, 1, 0)

RECURSIVE BigSubFrom(_, _, _, _)
BigSubFrom(a, b, i, borrow) ==
  IF i > Width THEN <<>>
  ELSE LET v == a[i] - b[i] - borrow
       IN  IF v < 0 THEN <<v + Base>> \o BigSubFrom(a, b, i + 1, 1)
           ELSE <<v>> \o BigSubFrom(a, b, i + 1, 0)

\* a - b, for a >= b
BigSub(a, b) == BigSubFrom(a, b, 1, 0)

RECURSIVE BigLeqFrom(_, _, _)
BigLeqFrom(a, b, i) ==
  IF i = 0 THEN TRUE
  ELSE IF a[i] # b[i] THEN a[i] < b[i]
  ELSE BigLeqFrom(a, b, i - 1)

BigLeq(a, b) == BigLeqFrom(a, b, Width)

RECURSIVE BigDivFrom(_, _, _, _)
BigDivFrom(a, d, i, rem) ==
  IF i = 0 THEN <<>>
  ELSE LET v == rem * Base + a[i]
       IN  BigDivFrom(a, d, i - 1, v % d) \o <<v \div d>>

\* floor(a / d) for a small natural d
BigDiv(a, d) == BigDivFrom(a, d, Width, 0)

\* floor(a / Base^2)
BigShift2(a) == [i \in 1..Width |-> IF i + 2 <= Width THEN a[i + 2] ELSE 0]

\* the value of a number known to fit one machine integer
BigToInt(a) == a[1] + a[2] * Base + a[3] * Base * Base

(***************************************************************************)
(* computeHeatIndex: the Rothfusz regression.  The coefficients are the    *)
(* source's, in units of 1e-8; F5 is five times the Fahrenheit             *)
(* temperature, so every term below is 25e8 times the source's term.       *)
(***************************************************************************)
HIPos(F5, R) ==
  BigAdd(BigAdd(BigMul(BigMul(BigOf(204901523), F5), 5),
                BigMul(BigMul(BigOf(1014333127), R), 25)),
         BigAdd(BigMul(BigMul(BigMul(BigOf(122874), F5), F5), R),
                BigMul(BigMul(BigMul(BigMul(BigOf(85282), F5), 5), R), R)))

HINeg(F5, R) ==
  BigAdd(BigAdd(BigMul(BigMul(BigOf(42379), 100000), 25),
                BigMul(BigMul(BigMul(BigOf(22475541), F5), 5), R)),
         BigAdd(BigAdd(BigMul(BigMul(BigOf(683783), F5), F5),
                       BigMul(BigMul(BigMul(BigOf(5481717), R), R), 25)),
                BigMul(BigMul(BigMul(BigMul(BigOf(199), F5), F5), R), R)))

\* Math.round(HI_c * 10) for HI_c = (HI_f - 32) * 5 / 9, with 25e8 * HI_f = pos - neg:
\* floor((4 * (pos - neg - 32 * 25e8) + 9e8) / 18e8)
\* floor((up - dn) / 18e8)
RoundedTenths(up, dn) ==
  IF BigLeq(dn, up)
  THEN BigToInt(BigDiv(BigShift2(BigSub(up, dn)), 18))
  ELSE 0 - BigToInt(BigDiv(BigShift2(BigAdd(BigSub(dn, up), BigOf(1799999999))), 18))

HeatIndexTenths(T, R) ==
  RoundedTenths(BigAdd(BigMul(HIPos(9 * T + 160, R), 4), BigOf(900000000)),
                BigAdd(BigMul(HINeg(9 * T + 160, R), 4), BigMul(BigOf(320000000), 1000)))

Min(a, b) == IF a < b THEN a ELSE b
Max(a, b) == IF a > b THEN a ELSE b

\* HeatIndexTenths tabulated once, for the whole temperatures GridTemps and
\* the humidities that are multiples of ten.
GridTemps == 15 .. 40

RECURSIVE HeatIndexRow(_, _)
HeatIndexRow(T, k) ==
  IF k > 10 THEN <<>> ELSE <<HeatIndexTenths(T, 10 * k)>> \o HeatIndexRow(T, k + 1)

RECURSIVE HeatIndexRows(_, _)
HeatIndexRows(lo, hi) ==
  IF lo > hi THEN <<>>
  ELSE IF lo = hi THEN <<HeatIndexRow(lo, 0)>>
  ELSE LET mid == (lo + hi) \div 2
       IN  HeatIndexRows(lo, mid) \o HeatIndexRows(mid + 1, hi)

HeatIndexGrid == HeatIndexRows(15, 40)

HeatIndexAt(T, R) ==
  IF T \in GridTemps /\ R % 10 = 0
  THEN HeatIndexGrid[T - 14][(R \div 10) + 1]
  ELSE HeatIndexTenths(T, R)

\* t and rh are JavaScript values; the result is in tenths of a degree.
computeHeatIndex(t, rh) ==
  IF t.type = "undefined" \/ rh.type = "undefined"
  THEN (IF t.type = "undefined" THEN Num(0)
        ELSE IF IsFiniteNum(t) THEN Num(10 * t.n) ELSE t)
  ELSE IF ~IsFiniteNum(t) \/ ~IsFiniteNum(rh) THEN NaN
  ELSE Num(HeatIndexAt(t.n, Min(100, Max(0, rh.n))))

(***************************************************************************)
(* getBMISensitivityFactor, on a BMI in thousandths; the factor in tenths. *)
(***************************************************************************)
getBMISensitivityFactor(bmi) ==
  IF bmi < 18500 THEN 8
  ELSE IF bmi < 25000 THEN 10
  ELSE IF bmi < 30000 THEN 12
  ELSE 13

RECURSIVE IsqrtIn(_, _, _)
IsqrtIn(x, lo, hi) ==
  IF lo = hi THEN lo
  ELSE LET mid == (lo + hi + 1) \div 2
       IN  IF mid * mid <= x THEN IsqrtIn(x, mid, hi) ELSE IsqrtIn(x, lo, mid - 1)

\* Math.min(1.0, Math.sqrt(Math.max(0, num) / den)) in thousandths
Normalize(num, den) ==
  IF num <= 0 THEN 0
  ELSE IF num >= den THEN 1000
  ELSE IsqrtIn((1000000 * num) \div den, 0, 1000)

\* p / 1000 <= (raw / 4000) ** 0.8, that is p^5 * 256 <= 1000 * raw^4
PowLeq(p, raw) ==
  BigLeq(BigMul(BigMul(BigMul(BigMul(BigMul(BigOf(256), p), p), p), p), p),
         BigMul(BigMul(BigMul(BigMul(BigOf(1000), raw), raw), raw), raw))

RECURSIVE PowIn(_, _, _)
PowIn(raw, lo, hi) ==
  IF lo = hi THEN lo
  ELSE LET mid == (lo + hi + 1) \div 2
       IN  IF PowLeq(mid, raw) THEN PowIn(raw, mid, hi) ELSE PowIn(raw, lo, mid - 1)

RECURSIVE PowTable(_, _, _, _)
PowTable(lo, hi, plo, phi) ==
  IF lo > hi THEN <<>>
  ELSE LET mid == (lo + hi) \div 2
           pm == PowIn(mid, plo, phi)
       IN  PowTable(lo, mid - 1, plo, pm) \o <<pm>> \o PowTable(mid + 1, hi, pm, phi)

\* Pow08[raw + 1] is (raw / 4000) ** 0.8 in thousandths, for raw in 0..4000
Pow08 == PowTable(0, 4000, 0, 1000)

\* 1 + (rawIntensity ** 0.8) * 9, in thousandths
Discretize(raw) == 1000 + 9 * Pow08[raw + 1]


(***************************************************************************)
(* Program constants.                                                      *)
(***************************************************************************)
hiTrendThreshold == 5          \* 0.5 degrees, in tenths
gasTrendThreshold == 50
intensityHistorySize == 5
DefaultBmi == 22000            \* let bmi = 22.0, in thousandths
DefaultHeight == 175
DefaultWeight == 70

\* The status messages and the trend messages of the source, in English.
MsgWaiting == "waiting (before exercise starts)"
MsgReady == "ready to measure"
MsgSettling == "setting baselines..."
MsgOverexertion == "warning: exercise intensity is high (overexertion)"
MsgGood == "good, appropriate exercise intensity"
MsgLight == "light exercise"
MsgHIRising == "heat index rising fast"
MsgHIFalling == "heat index falling fast"
MsgGasWorsening == "air quality worsening trend detected"

(***************************************************************************)
(* State.                                                                  *)
(***************************************************************************)
VARIABLES
  sessionStore,      \* userId -> UserSessionState, defined on the keys present
  intensityHistory,  \* userId -> sequence of intensities, on the keys present
  memoryStore,       \* userId -> latest payload, on the keys present
  pending,           \* startSession calls suspended on the profile lookup
  clock,             \* number of handler steps so far (Date.now())
  last,              \* the handler step just taken and what it returned
  pushLog,           \* history variable: per user, the pushes since the
                     \* user's history key was last created
  afterReset,        \* history variable: the users reset and not started since
  intended           \* history variable: userId -> the session arguments of the
                     \* startSession invoked last, on the users for whom no
                     \* resetSession or saveSession was invoked after it

vars == <<sessionStore, intensityHistory, memoryStore, pending, clock, last, pushLog,
          afterReset, intended>>

Users == {"u1", "u2"}

EmptyMap == [x \in {} |-> x]

\* obj[key] deleted / assigned
Without(f, k) == [x \in DOMAIN f \ {k} |-> f[x]]
With(f, k, v) == [x \in DOMAIN f \cup {k} |-> IF x = k THEN v ELSE f[x]]

NoBaseline == [present |-> FALSE, temp |-> Undefined, hum |-> Undefined,
               gas |-> Undefined, hr |-> Undefined]
Baseline(t, h, g, r) == [present |-> TRUE, temp |-> t, hum |-> h, gas |-> g, hr |-> r]

NoResult == [success |-> FALSE, intensity |-> Num(0), message |-> <<>>]

\* the userId of a request that carries none
AbsentUserId == "undefined"

Step(op, userId, outcome, result, pushed) ==
  [op |-> op, userId |-> userId, outcome |-> outcome, result |-> result, pushed |-> pushed]

Init ==
  /\ sessionStore = EmptyMap
  /\ intensityHistory = EmptyMap
  /\ memoryStore = EmptyMap
  /\ pending = {}
  /\ clock = 0
  /\ last = Step("init", "", "returned", NoResult, FALSE)
  /\ pushLog = [u \in Users |-> <<>>]
  /\ afterReset = {}
  /\ intended = EmptyMap


(***************************************************************************)
(* startSession.  The handler suspends once, on the profile lookup:        *)
(* StartSessionCall is the part before the await, StartSessionResume the   *)
(* part after it, for one of the lookup's outcomes.                        *)
(***************************************************************************)
LookupThrows == [kind |-> "throws", height |-> Undefined, weight |-> Undefined]
LookupMissing == [kind |-> "missing", height |-> Undefined, weight |-> Undefined]
LookupFound(h, w) == [kind |-> "found", height |-> h, weight |-> w]

\* w / (h * h) for h = height / 100, in thousandths (rounded down)
BmiOf(height, weight) ==
  LET h2 == height * height
      n == weight * 10000
  IN  (n \div h2) * 1000 + ((n % h2) * 1000) \div h2

\* lines 141-150: the BMI startSession stores
ProfileBmi(lookup) ==
  IF lookup.kind # "found" THEN DefaultBmi
  ELSE LET height == IF IsFiniteNum(lookup.height) /\ lookup.height.n # 0
                     THEN lookup.height.n ELSE DefaultHeight
           weight == IF IsFiniteNum(lookup.weight) /\ lookup.weight.n # 0
                     THEN lookup.weight.n ELSE DefaultWeight
       IN  IF height > 0 THEN BmiOf(height, weight) ELSE DefaultBmi

\* Number(plannedIntensity) || 1
PlannedOf(v) == IF IsFiniteNum(v) /\ v.n # 0 THEN v.n ELSE 1

\* lines 153-161: the session startSession stores
NewSession(call, lookup, now) ==
  [startTime |-> now,
   baseline |-> [temp |-> call.baseline.temp, hum |-> call.baseline.hum,
                 gas |-> call.baseline.gas, hr |-> call.baseline.hr,
                 hi |-> computeHeatIndex(call.baseline.temp, call.baseline.hum)],
   bmi |-> ProfileBmi(lookup),
   plannedIntensity |-> PlannedOf(call.plannedIntensity)]

\* what a session owes to the arguments of its startSession call
SessionArguments(plannedIntensity, baseline) ==
  [plannedIntensity |-> PlannedOf(plannedIntensity),
   temp |-> baseline.temp, hum |-> baseline.hum, gas |-> baseline.gas, hr |-> baseline.hr]

StartSessionCall(userId, plannedIntensity, baseline) ==
  /\ pending' = pending \cup {[id |-> clock, userId |-> userId,
                               plannedIntensity |-> plannedIntensity,
                               baseline |-> baseline]}
  /\ clock' = clock + 1
  /\ last' = Step("startSession", userId, "suspended", NoResult, FALSE)
  /\ intended' = IF baseline.present
                 THEN With(intended, userId, SessionArguments(plannedIntensity, baseline))
                 ELSE intended
  /\ UNCHANGED <<sessionStore, intensityHistory, memoryStore, pushLog, afterReset>>

StartSessionResume(call, lookup) ==
  /\ call \in pending
  /\ pending' = pending \ {call}
  /\ clock' = clock + 1
  /\ IF call.baseline.present
     THEN /\ sessionStore' = With(sessionStore, call.userId, NewSession(call, lookup, clock))
          /\ afterReset' = afterReset \ {call.userId}
          /\ last' = Step("startSession", call.userId, "returned",
                           [success |-> TRUE, intensity |-> Num(0),
                            message |-> <<"Session started on server">>], FALSE)
     ELSE \* baseline.temp of an absent baseline: TypeError, the call rejects
          /\ UNCHANGED <<sessionStore, afterReset>>
          /\ last' = Step("startSession", call.userId, "threw", NoResult, FALSE)
  /\ UNCHANGED <<intensityHistory, memoryStore, pushLog, intended>>


(***************************************************************************)
(* saveEnvironmentData.  The handler contains no await: it runs from its   *)
(* first line to its return as one step.                                   *)
(***************************************************************************)
\* parseNumber(value) ?? 0
ParseOrZero(v) == IF IsFiniteNum(v) THEN v.n ELSE 0

\* lines 197-203: the baseline is rejected
InvalidBaseline(b) ==
  \/ b.hi.type # "number" \/ b.gas.type # "number" \/ b.hr.type # "number"
  \/ b.hi.nan \/ b.gas.nan \/ b.hr.nan

\* a - b on JavaScript values, a and b in the same unit
Minus(a, b) ==
  IF IsFiniteNum(a) /\ IsFiniteNum(b) THEN Num(a.n - b.n) ELSE NaN

Abs(n) == IF n < 0 THEN 0 - n ELSE n

\* lines 241-252: the trend adjustment in 1/4000, and the trend messages
TrendAdjustment(pHI, pGas) ==
  (IF Abs(pHI) >= hiTrendThreshold THEN 60 * Min(20, Abs(pHI)) ELSE 0)
  + (IF pGas >= gasTrendThreshold THEN 8 * Min(100, pGas) ELSE 0)

TrendMessages(pHI, pGas) ==
  (IF Abs(pHI) >= hiTrendThreshold
   THEN <<IF pHI > 0 THEN MsgHIRising ELSE MsgHIFalling>> ELSE <<>>)
  \o (IF pGas >= gasTrendThreshold THEN <<MsgGasWorsening>> ELSE <<>>)

\* lines 227-262: the intensity before smoothing, in thousandths
ScoreOf(deltaHI, deltaGas, deltaHR, sensitivity, pHI, pGas) ==
  Discretize(Min(4000,
    2 * Normalize(deltaHR, 60)
    + Normalize(10 * deltaHI, Max(10, 30 * sensitivity))      \* hiDivisor, in hundredths
    + Normalize(10 * deltaGas, Max(10, 100 * sensitivity))    \* gasDivisor, in tenths
    + TrendAdjustment(pHI, pGas)))

\* faulty variant of the differences: the heat-index difference is taken
\* signed and floored at 0 (Math.abs forgotten)
DeltasScoreSigned(dHI, dGas, dHR, sensitivity, pHI, pGas) ==
  IF dHI.nan \/ dGas.nan \/ dHR.nan THEN NaN
  ELSE Num(ScoreOf(Max(0, dHI.n), Max(0, dGas.n), Max(0, dHR.n), sensitivity, pHI, pGas))

\* lines 215-217, on the signed differences: NaN if one of them is
DeltasScore(dHI, dGas, dHR, sensitivity, pHI, pGas) ==
  IF dHI.nan \/ dGas.nan \/ dHR.nan THEN NaN
  ELSE Num(ScoreOf(Abs(dHI.n), Max(0, dGas.n), Max(0, dHR.n), sensitivity, pHI, pGas))

\* lines 211-262: the intensity before smoothing, in thousandths, or NaN
RawScore(session, fTemp, fHum, fGas, heartRate, pHI, pGas) ==
  DeltasScore(Minus(computeHeatIndex(fTemp, fHum), session.baseline.hi),
              Minus(fGas, session.baseline.gas),
              Minus(heartRate, session.baseline.hr),
              getBMISensitivityFactor(session.bmi), pHI, pGas)

\* faulty variants of the push: one that never evicts, one that evicts one
\* push late, one that inserts the new value at the front (unshift, then pop)
PushedUnbounded(history, v) == Append(history, v)

PushedKeepingSix(history, v) ==
  LET h == Append(history, v)
  IN  IF Len(h) > intensityHistorySize + 1 THEN Tail(h) ELSE h

PushedFront(history, v) ==
  LET h == <<v>> \o history
  IN  IF Len(h) > intensityHistorySize THEN SubSeq(h, 1, intensityHistorySize) ELSE h

\* lines 270-273: push, then shift when longer than intensityHistorySize
Pushed(history, v) ==
  LET h == Append(history, v)
  IN  IF Len(h) > intensityHistorySize THEN Tail(h) ELSE h

\* faulty variant of the weighted sum: the oldest value weighs most
RECURSIVE WeightedSumReversed(_, _)
WeightedSumReversed(history, idx) ==
  IF idx = 0 THEN 0
  ELSE history[idx].n * (Len(history) - idx + 1) + WeightedSumReversed(history, idx - 1)

RECURSIVE WeightedSum(_, _)
WeightedSum(history, idx) ==
  IF idx = 0 THEN 0 ELSE history[idx].n * idx + WeightedSum(history, idx - 1)

WeightSum(history) == (Len(history) * (Len(history) + 1)) \div 2

\* lines 276-291: the smoothed intensity, rounded and clamped; NaN stays NaN
\* Math.round(num / den / 1000), clamped to 1..10
RoundClamp(num, den) ==
  Max(1, Min(10, (2 * num + 1000 * den) \div (2000 * den)))

Smoothed(history) ==
  IF \E i \in 1..Len(history) : history[i].nan THEN NaN
  ELSE IF Len(history) > 1
       THEN Num(RoundClamp(WeightedSum(history, Len(history)), WeightSum(history)))
       ELSE Num(RoundClamp(history[1].n, 1))

\* v >= n on a JavaScript value: false for NaN
Geq(v, n) == IsFiniteNum(v) /\ v.n >= n

\* lines 298-302
StatusOf(trendMessages, intensity) ==
  IF Len(trendMessages) > 0 THEN trendMessages
  ELSE IF Geq(intensity, 8) THEN <<MsgOverexertion>>
  ELSE IF Geq(intensity, 4) THEN <<MsgGood>>
  ELSE <<MsgLight>>

\* lines 312-352: the alert causes in evaluation order, and the level
CausesOf(deltaHI, deltaGas, intensity) ==
  (IF Geq(deltaHI, 30) THEN <<"hi-critical">>
   ELSE IF Geq(deltaHI, 20) THEN <<"hi-warning">> ELSE <<>>)
  \o (IF Geq(deltaGas, 100) THEN <<"gas-critical">>
      ELSE IF Geq(deltaGas, 50) THEN <<"gas-warning">> ELSE <<>>)
  \o (IF Geq(intensity, 8) THEN <<"intensity-critical">>
      ELSE IF Geq(intensity, 7) THEN <<"intensity-warning">> ELSE <<>>)

AlertCauses(session, fTemp, fHum, fGas, intensity) ==
  CausesOf(Minus(computeHeatIndex(fTemp, fHum), session.baseline.hi),
           Minus(fGas, session.baseline.gas), intensity)

CriticalCauses == {"hi-critical", "gas-critical", "intensity-critical"}

\* faulty variant of the level: the last cause alone decides it, so that a
\* later warning replaces an earlier critical
AlertLevelLatest(alerts, i, level) ==
  IF Len(alerts) = 0 THEN level
  ELSE IF alerts[Len(alerts)] \in CriticalCauses THEN "critical" ELSE "warning"

RECURSIVE AlertLevelFrom(_, _, _)
AlertLevelFrom(alerts, i, level) ==
  IF i > Len(alerts) THEN level
  ELSE AlertLevelFrom(alerts, i + 1,
         IF alerts[i] \in CriticalCauses THEN "critical"
         ELSE IF level = "none" THEN "warning" ELSE level)

AlertLevel(alerts) == AlertLevelFrom(alerts, 1, "none")


Sample(u, t, h, g, r, pHI, pGas) ==
  [userId |-> u, temperature |-> t, humidity |-> h, gasValue |-> g, heartRate |-> r,
   predictedHI |-> pHI, predictedGas |-> pGas]

\* lines 354-375: the stored payload (the fields the result consists of)
Payload(data, intensity, statusMessage, alerts) ==
  [userId |-> data.userId, intensity |-> intensity, statusMessage |-> statusMessage,
   alertLevel |-> AlertLevel(alerts), alertMessage |-> alerts, rawPayload |-> data]

\* faulty variant of the no-session sample: it drops the user's history
SaveNoSessionClearing(data) ==
  /\ memoryStore' = With(memoryStore, data.userId, Payload(data, Num(0), <<MsgReady>>, <<>>))
  /\ last' = Step("saveEnvironmentData", data.userId, "returned",
                  [success |-> TRUE, intensity |-> Num(0), message |-> <<MsgReady>>], FALSE)
  /\ intensityHistory' = Without(intensityHistory, data.userId)
  /\ UNCHANGED <<sessionStore, pushLog>>

\* lines 305-378 for a sample that found no session
SaveNoSession(data) ==
  /\ memoryStore' = With(memoryStore, data.userId, Payload(data, Num(0), <<MsgReady>>, <<>>))
  /\ last' = Step("saveEnvironmentData", data.userId, "returned",
                  [success |-> TRUE, intensity |-> Num(0), message |-> <<MsgReady>>], FALSE)
  /\ UNCHANGED <<sessionStore, intensityHistory, pushLog>>

\* lines 204-207 and 311-378 for a session whose baseline is rejected
SaveDegraded(data, session) ==
  /\ memoryStore' = With(memoryStore, data.userId,
       Payload(data, Num(1), <<MsgSettling>>,
               AlertCauses(session, ToNumber(data.temperature), ToNumber(data.humidity),
                           ToNumber(data.gasValue), Num(1))))
  /\ last' = Step("saveEnvironmentData", data.userId, "returned",
                  [success |-> TRUE, intensity |-> Num(1), message |-> <<MsgSettling>>], FALSE)
  /\ UNCHANGED <<sessionStore, intensityHistory, pushLog>>

\* lines 288-378: the result, the stored payload and the return value
Finish(data, session, calculatedIntensity, statusMessage) ==
  /\ memoryStore' = With(memoryStore, data.userId,
       Payload(data, calculatedIntensity, statusMessage,
               AlertCauses(session, ToNumber(data.temperature), ToNumber(data.humidity),
                           ToNumber(data.gasValue), calculatedIntensity)))
  /\ last' = Step("saveEnvironmentData", data.userId, "returned",
                  [success |-> TRUE, intensity |-> calculatedIntensity,
                   message |-> statusMessage], TRUE)

\* lines 266-302: the history after the push, and the smoothed intensity
Smooth(data, session, history, intensity) ==
  /\ intensityHistory' = With(intensityHistory, data.userId, history)
  /\ pushLog' = [pushLog EXCEPT ![data.userId] = Append(@, [seq |-> clock, v |-> intensity])]
  /\ Finish(data, session, Smoothed(history),
            StatusOf(TrendMessages(ParseOrZero(data.predictedHI),
                                   ParseOrZero(data.predictedGas)), Smoothed(history)))

HistoryOf(userId) ==
  IF userId \in DOMAIN intensityHistory THEN intensityHistory[userId] ELSE <<>>

Score(data, session, intensity) ==
  Smooth(data, session, Pushed(HistoryOf(data.userId), intensity), intensity)

\* lines 209-378 for a session whose baseline is accepted
SaveScored(data, session) ==
  IF OrZero(data.heartRate).type = "string"
  THEN \* (heartRate || 0).toFixed of a string: TypeError at line 221
       /\ last' = Step("saveEnvironmentData", data.userId, "threw", NoResult, FALSE)
       /\ UNCHANGED <<sessionStore, intensityHistory, memoryStore, pushLog>>
  ELSE /\ Score(data, session,
                RawScore(session, ToNumber(data.temperature), ToNumber(data.humidity),
                         ToNumber(data.gasValue), OrZero(data.heartRate),
                         ParseOrZero(data.predictedHI), ParseOrZero(data.predictedGas)))
       /\ UNCHANGED sessionStore

SaveEnvironmentData(data) ==
  /\ clock' = clock + 1
  /\ UNCHANGED <<pending, afterReset, intended>>
  /\ IF data.userId = AbsentUserId
     THEN /\ last' = Step("saveEnvironmentData", data.userId, "returned",
                          [success |-> FALSE, intensity |-> Num(0),
                           message |-> <<"userId required">>], FALSE)
          /\ UNCHANGED <<sessionStore, intensityHistory, memoryStore, pushLog>>
     ELSE IF data.userId \notin DOMAIN sessionStore THEN SaveNoSession(data)
     ELSE IF InvalidBaseline(sessionStore[data.userId].baseline)
          THEN SaveDegraded(data, sessionStore[data.userId])
     ELSE SaveScored(data, sessionStore[data.userId])

(***************************************************************************)
(* resetSession and saveSession.  Neither changes the stores after an      *)
(* await: saveSession deletes the session before it awaits the database.   *)
(***************************************************************************)
\* faulty variants of resetSession: one that keeps the history (as
\* saveSession does), one that clears the history of every user
ResetKeepingHistory(userId) ==
  /\ sessionStore' = Without(sessionStore, userId)
  /\ afterReset' = afterReset \cup {userId}
  /\ intended' = Without(intended, userId)
  /\ clock' = clock + 1
  /\ last' = Step("resetSession", userId, "returned",
                  [success |-> TRUE, intensity |-> Num(0), message |-> <<>>], FALSE)
  /\ UNCHANGED <<intensityHistory, pushLog, memoryStore, pending>>

ResetEveryHistory(userId) ==
  /\ sessionStore' = Without(sessionStore, userId)
  /\ intensityHistory' = EmptyMap
  /\ pushLog' = [u \in Users |-> <<>>]
  /\ afterReset' = afterReset \cup {userId}
  /\ intended' = Without(intended, userId)
  /\ clock' = clock + 1
  /\ last' = Step("resetSession", userId, "returned",
                  [success |-> TRUE, intensity |-> Num(0), message |-> <<>>], FALSE)
  /\ UNCHANGED <<memoryStore, pending>>

ResetSession(userId) ==
  /\ sessionStore' = Without(sessionStore, userId)
  /\ intensityHistory' = Without(intensityHistory, userId)
  /\ pushLog' = [pushLog EXCEPT ![userId] = <<>>]
  /\ afterReset' = afterReset \cup {userId}
  /\ intended' = Without(intended, userId)
  /\ clock' = clock + 1
  /\ last' = Step("resetSession", userId, "returned",
                  [success |-> TRUE, intensity |-> Num(0), message |-> <<>>], FALSE)
  /\ UNCHANGED <<memoryStore, pending>>

SaveSession(userId, hasSessionData, dbOk) ==
  /\ clock' = clock + 1
  /\ UNCHANGED <<intensityHistory, memoryStore, pending, pushLog, afterReset>>
  /\ IF userId = AbsentUserId \/ ~hasSessionData
     THEN /\ last' = Step("saveSession", userId, "returned", NoResult, FALSE)
          /\ UNCHANGED <<sessionStore, intended>>
     ELSE /\ sessionStore' = Without(sessionStore, userId)
          /\ intended' = Without(intended, userId)
          /\ last' = IF dbOk
                     THEN Step("saveSession", userId, "returned",
                               [success |-> TRUE, intensity |-> Num(0), message |-> <<>>], FALSE)
                     ELSE Step("saveSession", userId, "threw", NoResult, FALSE)


(***************************************************************************)
(* Request inputs.                                                         *)
(***************************************************************************)
GoodBaseline == Baseline(Num(25), Num(50), Num(400), Num(70))
NoHrBaseline == Baseline(Num(25), Num(50), Num(400), Undefined)
NoTempBaseline == Baseline(Undefined, Num(50), Num(400), Num(70))

Resting == Sample("u1", Num(25), Num(50), Num(400), Num(70), Num(0), Num(0))
Strained == Sample("u1", Num(29), Num(50), Num(520), Num(160), Num(0), Num(0))

Moderate == Sample("u1", Num(25), Num(50), Num(460), Num(100), Num(0), Num(0))

For(u, reading) == [reading EXCEPT !.userId = u]

(***************************************************************************)
(* Spec: two users and every handler, on few inputs.                       *)
(***************************************************************************)
MaxClock == 5

StartCall ==
  \E u \in Users, b \in {GoodBaseline, NoBaseline} :
    clock < MaxClock /\ StartSessionCall(u, Num(3), b)

StartResume ==
  \E c \in pending, l \in {LookupThrows, LookupFound(Num(160), Num(100))} :
    clock < MaxClock /\ StartSessionResume(c, l)

Save ==
  \E u \in Users, d \in {Resting, Strained} :
    clock < MaxClock /\ SaveEnvironmentData(For(u, d))

Reset == \E u \in Users : clock < MaxClock /\ ResetSession(u)

Complete ==
  \E u \in Users, dbOk \in BOOLEAN : clock < MaxClock /\ SaveSession(u, TRUE, dbOk)

Next == StartCall \/ StartResume \/ Save \/ Reset \/ Complete

Spec == Init /\ [][Next]_vars

(***************************************************************************)
(* SpecEngine: one user, startSession and saveEnvironmentData on many      *)
(* baselines, profiles and readings.                                       *)
(***************************************************************************)
MaxClockEngine == 3

EngineBaselines == {GoodBaseline, NoHrBaseline, NoTempBaseline, NoBaseline}

EngineLookups ==
  {LookupThrows, LookupMissing, LookupFound(Undefined, Undefined),
   LookupFound(Num(160), Num(100)), LookupFound(Num(160), Num(45))}

EngineReadings ==
  {Sample("u1", Num(t), Num(50), Num(g), Num(r), Num(0), Num(0)) :
     t \in {25, 28, 29}, g \in {400, 460, 520}, r \in {70, 100, 160}}
  \cup {Sample("u1", Undefined, Num(50), Num(400), Num(70), Num(0), Num(0)),
        Sample("u1", Num(25), Num(50), Num(400), Str, Num(0), Num(0)),
        Sample("u1", Num(20), Num(100), Num(400), Undefined, Str, Undefined),
        Sample("u1", Num(25), Num(50), Num(400), Num(70), Num(20), Num(100)),
        Sample("u1", Num(25), Num(50), Num(400), Num(70), Num(-10), Num(40))}

EngineStart ==
  \E b \in EngineBaselines, p \in {Num(3), Undefined} :
    clock < MaxClockEngine /\ StartSessionCall("u1", p, b)

EngineResume ==
  \E c \in pending, l \in EngineLookups :
    clock < MaxClockEngine /\ StartSessionResume(c, l)

EngineSave ==
  \E d \in EngineReadings : clock < MaxClockEngine /\ SaveEnvironmentData(d)

NextEngine == EngineStart \/ EngineResume \/ EngineSave

SpecEngine == Init /\ [][NextEngine]_vars

(***************************************************************************)
(* SpecHist: one user and one session, long enough to overflow the         *)
(* intensity history.                                                      *)
(***************************************************************************)
MaxClockHist == 9

HistStart == clock < MaxClockHist /\ StartSessionCall("u1", Num(3), GoodBaseline)

HistResume ==
  \E c \in pending : clock < MaxClockHist /\ StartSessionResume(c, LookupMissing)

HistSave ==
  \E d \in {Resting, Strained} : clock < MaxClockHist /\ SaveEnvironmentData(d)

HistReset == clock < MaxClockHist /\ ResetSession("u1")

NextHist == HistStart \/ HistResume \/ HistSave \/ HistReset

SpecHist == Init /\ [][NextHist]_vars


(***************************************************************************)
(* SpecMono: one user and one complete baseline, samples on a grid of      *)
(* temperatures (below and above the baseline), gas levels and heart       *)
(* rates, with and without predicted trends.                               *)
(***************************************************************************)
MaxClockMono == 4

MonoTrends == {<<0, 0>>, <<10, 60>>}

\* temperature and humidity: heat index 18.2, 25.9 (the baseline's) and 28.4
MonoClimates == {<<22, 100>>, <<25, 50>>, <<28, 50>>}

MonoReadings ==
  {Sample("u1", Num(c[1]), Num(c[2]), Num(g), Num(r), Num(p[1]), Num(p[2])) :
     c \in MonoClimates, g \in {400, 470}, r \in {60, 70, 130}, p \in MonoTrends}

MonoStart == clock < MaxClockMono /\ StartSessionCall("u1", Num(3), GoodBaseline)

MonoResume ==
  \E c \in pending, l \in {LookupMissing, LookupFound(Num(160), Num(100))} :
    clock < MaxClockMono /\ StartSessionResume(c, l)

MonoSave ==
  \E d \in MonoReadings : clock < MaxClockMono /\ SaveEnvironmentData(d)

NextMono == MonoStart \/ MonoResume \/ MonoSave

SpecMono == Init /\ [][NextMono]_vars


(***************************************************************************)
(* SpecBoundary: requests with and without a userId.  The profile lookup   *)
(* of a request without userId fails (doc(undefined)), inside the try.     *)
(***************************************************************************)
MaxClockBoundary == 5

BoundaryIds == {"u1", AbsentUserId}

BoundaryStart ==
  \E u \in BoundaryIds : clock < MaxClockBoundary /\ StartSessionCall(u, Num(3), GoodBaseline)

BoundaryResume ==
  \E c \in pending, l \in {LookupThrows, LookupMissing} :
    /\ clock < MaxClockBoundary
    /\ (c.userId = AbsentUserId => l = LookupThrows)
    /\ StartSessionResume(c, l)

BoundarySave ==
  \E u \in BoundaryIds, d \in {Resting, Strained} :
    clock < MaxClockBoundary /\ SaveEnvironmentData(For(u, d))

NextBoundary == BoundaryStart \/ BoundaryResume \/ BoundarySave

SpecBoundary == Init /\ [][NextBoundary]_vars


(***************************************************************************)
(* SpecSmooth: one user, sessions started over and over without a reset,   *)
(* and runs of up to seven samples of three readings.                      *)
(***************************************************************************)
MaxClockSmooth == 9

SmoothStart == clock < MaxClockSmooth /\ StartSessionCall("u1", Num(3), GoodBaseline)

SmoothResume ==
  \E c \in pending : clock < MaxClockSmooth /\ StartSessionResume(c, LookupMissing)

SmoothSave ==
  \E d \in {Resting, Moderate, Strained} :
    clock < MaxClockSmooth /\ SaveEnvironmentData(d)

NextSmooth == SmoothStart \/ SmoothResume \/ SmoothSave

SpecSmooth == Init /\ [][NextSmooth]_vars


(***************************************************************************)
(* Properties.                                                             *)
(***************************************************************************)
IsSample == last.op = "saveEnvironmentData"

\* the session the sample just taken was scored against (a sample leaves the
\* session store as it found it)
HasSession == last.userId \in DOMAIN sessionStore

\* temperature, humidity, gas, heartRate and heatIndex are finite numbers
CompleteBaseline(b) ==
  /\ IsFiniteNum(b.temp) /\ IsFiniteNum(b.hum) /\ IsFiniteNum(b.gas)
  /\ IsFiniteNum(b.hr) /\ IsFiniteNum(b.hi)

\* C1 (as stated): every saveEnvironmentData call for a user whose session
\* has a complete baseline returns an integer intensity between 1 and 10,
\* whatever the fields of the sample are.
C1_IntensityInRange ==
  (/\ IsSample /\ last.outcome = "returned"
   /\ HasSession /\ CompleteBaseline(sessionStore[last.userId].baseline))
    => /\ IsFiniteNum(last.result.intensity)
       /\ last.result.intensity.n \in 1..10

\* C2: from resetSession(u) until the next session start of u, u has neither
\* a session nor a history, and a sample of u returns intensity 0 with
\* alert level none and no alert message, and pushes nothing.
C2_ResetClears ==
  \A u \in afterReset :
    /\ u \notin DOMAIN sessionStore
    /\ u \notin DOMAIN intensityHistory
    /\ (IsSample /\ last.userId = u)
         => /\ last.outcome = "returned"
            /\ last.result.intensity = Num(0)
            /\ ~last.pushed
            /\ memoryStore[u].intensity = Num(0)
            /\ memoryStore[u].alertLevel = "none"
            /\ memoryStore[u].alertMessage = <<>>

\* a sample of a user who was reset, whose session another call is starting
C2_SampleAfterReset ==
  /\ IsSample /\ last.userId \in afterReset
  /\ \E c \in pending : c.userId = last.userId
  /\ memoryStore[last.userId].alertLevel = "none"

\* C3: a user's history never holds more than 5 entries, and it holds the
\* most recent pushes in the order they were made (the oldest is evicted
\* first).
C3_HistoryWindow ==
  \A u \in DOMAIN intensityHistory :
    LET h == intensityHistory[u]
        log == pushLog[u]
    IN  /\ Len(h) <= 5
        /\ Len(h) = Min(5, Len(log))
        /\ \A i \in 1..Len(h) : h[i] = log[Len(log) - Len(h) + i].v

\* after six pushes the value pushed first is gone
C3_FirstEvicted ==
  /\ "u1" \in DOMAIN intensityHistory
  /\ Len(pushLog["u1"]) = 6
  /\ Len(intensityHistory["u1"]) = 5
  /\ \A i \in 1..5 : intensityHistory["u1"][i] # pushLog["u1"][1].v

\* the alert level the thresholds call for, on the signed differences
\* (heat index in tenths) and the final intensity
LevelAgrees(level, dHI, dGas, intensity) ==
  LET critical == Geq(dHI, 30) \/ Geq(dGas, 100) \/ Geq(intensity, 8)
      warning == Geq(dHI, 20) \/ Geq(dGas, 50) \/ Geq(intensity, 7)
  IN  /\ critical => level = "critical"
      /\ (warning /\ ~critical) => level = "warning"
      /\ (warning \/ critical) => level # "none"

PayloadAgrees(p, baseline) ==
  LevelAgrees(p.alertLevel,
              Minus(computeHeatIndex(ToNumber(p.rawPayload.temperature),
                                     ToNumber(p.rawPayload.humidity)), baseline.hi),
              Minus(ToNumber(p.rawPayload.gasValue), baseline.gas),
              p.intensity)

\* C4: for every sample the alert classifier evaluates, the level is critical
\* when a critical threshold matches (signed heat-index difference >= 3.0,
\* gas difference >= 100, final intensity >= 8) whatever else matches,
\* warning when only warning thresholds match (>= 2.0, >= 50, >= 7), and
\* never none when a threshold matches.
C4_AlertLevel ==
  (IsSample /\ last.outcome = "returned" /\ HasSession)
    => PayloadAgrees(memoryStore[last.userId], sessionStore[last.userId].baseline)

\* a critical heat-index rise followed by a gas warning: the level stays critical
C4_CriticalThenWarning ==
  /\ IsSample /\ last.outcome = "returned" /\ HasSession
  /\ memoryStore[last.userId].alertMessage = <<"hi-critical", "gas-warning">>
  /\ memoryStore[last.userId].alertLevel = "critical"

\* C5: a sample of a user without a session returns intensity 0 and the
\* ready status, stores alert level none and no alert message, and leaves
\* the session store and the intensity history as they were.
C5_NoSessionSample ==
  [][(/\ last'.op = "saveEnvironmentData"
      /\ last'.userId # AbsentUserId
      /\ last'.userId \notin DOMAIN sessionStore)
       => /\ last'.outcome = "returned"
          /\ last'.result.intensity = Num(0)
          /\ last'.result.message = <<MsgReady>>
          /\ memoryStore'[last'.userId].alertLevel = "none"
          /\ memoryStore'[last'.userId].alertMessage = <<>>
          /\ sessionStore' = sessionStore
          /\ intensityHistory' = intensityHistory]_vars

\* a sample without a session of a user whose history an earlier session left
C5_NoSessionWithHistory ==
  /\ IsSample /\ ~HasSession
  /\ last.userId \in DOMAIN intensityHistory
  /\ last.result.intensity = Num(0)
  /\ last.result.message = <<MsgReady>>

\* C6 (as stated): when one of the five baseline fields of the session is
\* missing or not a finite number, a sample returns intensity 1 with the
\* settling status, throws nothing and does not touch the history.
C6_IncompleteBaselineDegrades ==
  (IsSample /\ HasSession /\ ~CompleteBaseline(sessionStore[last.userId].baseline))
    => /\ last.outcome = "returned"
       /\ last.result.intensity = Num(1)
       /\ last.result.message = <<MsgSettling>>
       /\ ~last.pushed

\* C7 (as stated): a sample of a user without a session, or with a session
\* whose baseline the handler rejects, stores alert level none and no alert
\* message.
C7_NoAlertsWithoutValidBaseline ==
  (/\ IsSample /\ last.outcome = "returned" /\ last.userId # AbsentUserId
   /\ (HasSession => InvalidBaseline(sessionStore[last.userId].baseline)))
    => /\ memoryStore[last.userId].alertLevel = "none"
       /\ memoryStore[last.userId].alertMessage = <<>>

\* C8 (as stated): every startSession call that has run to its end returned
\* success and left a session of the user in the store.
C8_StartAlwaysSucceeds ==
  (last.op = "startSession" /\ last.outcome # "suspended")
    => /\ last.outcome = "returned"
       /\ last.result.success
       /\ HasSession

\* C9: a sample that is scored runs as one step in arrival order: its value
\* is the newest entry of the history, behind the entries of the earlier
\* calls in their order, and the intensity it returns is the smoothing of
\* exactly that history.
C9_SamplesInArrivalOrder ==
  [][(last'.op = "saveEnvironmentData" /\ last'.pushed)
       => LET u == last'.userId
              old == HistoryOf(u)
              new == intensityHistory'[u]
              log == pushLog'[u]
              kept == Len(new) - 1
          IN  /\ log[Len(log)].seq = clock
              /\ \A i \in 1..(Len(log) - 1) : log[i].seq < clock
              /\ new[Len(new)] = log[Len(log)].v
              /\ kept <= Len(old)
              /\ \A i \in 1..kept : new[i] = old[Len(old) - kept + i]
              /\ last'.result.intensity = Smoothed(new)]_vars

\* two samples of one user, scored differently, in the order they arrived
C9_TwoSamplesInOrder ==
  /\ IsSample /\ last.pushed
  /\ Len(pushLog["u1"]) = 2
  /\ pushLog["u1"][1].v # pushLog["u1"][2].v
  /\ intensityHistory["u1"] = <<pushLog["u1"][1].v, pushLog["u1"][2].v>>

EntryOf(store, key) == IF key \in DOMAIN store THEN <<store[key]>> ELSE <<>>

\* C10: a step taken for one user leaves the session, the history and the
\* latest result of every other user as they were.
C10_UsersIsolated ==
  [][\A b \in Users :
       b # last'.userId
         => /\ EntryOf(sessionStore', b) = EntryOf(sessionStore, b)
            /\ EntryOf(intensityHistory', b) = EntryOf(intensityHistory, b)
            /\ EntryOf(memoryStore', b) = EntryOf(memoryStore, b)]_vars

\* u1 is reset while u2 has a session, a history and a latest result
C10_ResetBesideActiveUser ==
  /\ last.op = "resetSession" /\ last.userId = "u1"
  /\ "u2" \in DOMAIN sessionStore
  /\ "u2" \in DOMAIN intensityHistory
  /\ "u2" \in DOMAIN memoryStore

\* the three differences of a finite reading against the session's baseline:
\* |heat-index difference| in tenths, gas difference and heart-rate
\* difference floored at 0
DeltasOf(session, d) ==
  <<Abs(computeHeatIndex(d.temperature, d.humidity).n - session.baseline.hi.n),
    Max(0, d.gasValue.n - session.baseline.gas.n),
    Max(0, d.heartRate.n - session.baseline.hr.n)>>

\* same trends, two differences equal and the third not smaller
OneDeltaLarger(a, b, pa, pb) ==
  /\ pa = pb
  /\ \E k \in 1..3 : a[k] <= b[k] /\ \A j \in 1..3 \ {k} : a[j] = b[j]

\* what saveEnvironmentData returns for reading d on this session and history
IntensityFor(session, history, d) ==
  Smoothed(Pushed(history,
    RawScore(session, ToNumber(d.temperature), ToNumber(d.humidity),
             ToNumber(d.gasValue), OrZero(d.heartRate),
             ParseOrZero(d.predictedHI), ParseOrZero(d.predictedGas))))

\* a <= b on returned intensities; an intensity that is the same is not smaller
IntensityLeq(a, b) == a = b \/ (IsFiniteNum(a) /\ IsFiniteNum(b) /\ a.n <= b.n)

MonotoneAgainst(session, history, taken, result, d) ==
  /\ OneDeltaLarger(DeltasOf(session, taken), DeltasOf(session, d),
                    <<taken.predictedHI, taken.predictedGas>>,
                    <<d.predictedHI, d.predictedGas>>)
       => IntensityLeq(result, IntensityFor(session, history, d))
  /\ OneDeltaLarger(DeltasOf(session, d), DeltasOf(session, taken),
                    <<d.predictedHI, d.predictedGas>>,
                    <<taken.predictedHI, taken.predictedGas>>)
       => IntensityLeq(IntensityFor(session, history, d), result)

\* C11: on one session with a valid baseline, one history and one pair of
\* predicted trends, the intensity a sample returns is not smaller than the
\* one any other reading would have returned whose heart-rate difference,
\* absolute heat-index difference or gas difference is smaller, the other
\* two being equal (and not larger than that of a reading where it is larger).
C11_Monotone ==
  [][(last'.op = "saveEnvironmentData" /\ last'.pushed)
       => \A d \in MonoReadings :
            MonotoneAgainst(sessionStore[last'.userId], HistoryOf(last'.userId),
                            memoryStore'[last'.userId].rawPayload,
                            last'.result.intensity, d)]_vars

\* a reading colder than the baseline, scored above 1 on a history that
\* already held a value
C11_ColderScoredOnHistory ==
  /\ IsSample /\ last.pushed
  /\ Len(intensityHistory[last.userId]) = 2
  /\ memoryStore[last.userId].rawPayload.temperature = Num(22)
  /\ last.result.intensity.n >= 2

\* C12 (as stated): a sample never aborts saveEnvironmentData, whatever its
\* temperature, humidity, gas, heart-rate and trend fields are: the call
\* returns a result.
C12_SampleNeverThrows ==
  (IsSample /\ last.userId # AbsentUserId) => last.outcome = "returned"

\* C13 (as stated): a saveEnvironmentData or startSession call without userId
\* ends with a failure result, and no session, history or latest result is
\* ever stored for it.
C13_AbsentUserIdRejected ==
  /\ AbsentUserId \notin DOMAIN sessionStore
  /\ AbsentUserId \notin DOMAIN intensityHistory
  /\ AbsentUserId \notin DOMAIN memoryStore
  /\ (last.userId = AbsentUserId /\ last.outcome # "suspended")
       => (last.outcome = "returned" /\ ~last.result.success)

\* i * h_i in thousandths, 0 beyond the end of the history
Term(h, i) == IF i <= Len(h) THEN i * h[i].n ELSE 0

\* r is num / den / 1000 rounded to the nearest integer and clamped to 1..10
IsRoundedClamped(r, num, den) ==
  /\ r \in 1..10
  /\ r > 1 => 2 * num >= (2 * r - 1) * 1000 * den
  /\ r < 10 => 2 * num < (2 * r + 1) * 1000 * den

SmoothingAgrees(h, discretized, r) ==
  /\ h[Len(h)] = discretized
  /\ IsFiniteNum(r)
  /\ IsRoundedClamped(r.n, Term(h, 1) + Term(h, 2) + Term(h, 3) + Term(h, 4) + Term(h, 5),
                      (Len(h) * (Len(h) + 1)) \div 2)

\* C14: after a scored sample the newest history entry is the sample's
\* discretized value (not the smoothed or rounded one), and the returned
\* intensity is the rounding of (sum of i * h_i) / (sum of i) over the
\* history h_1 (oldest) .. h_N (newest), which for N = 1 is h_1 itself.
C14_WeightedAverage ==
  (IsSample /\ last.pushed)
    => SmoothingAgrees(intensityHistory[last.userId],
         RawScore(sessionStore[last.userId],
                  ToNumber(memoryStore[last.userId].rawPayload.temperature),
                  ToNumber(memoryStore[last.userId].rawPayload.humidity),
                  ToNumber(memoryStore[last.userId].rawPayload.gasValue),
                  OrZero(memoryStore[last.userId].rawPayload.heartRate),
                  ParseOrZero(memoryStore[last.userId].rawPayload.predictedHI),
                  ParseOrZero(memoryStore[last.userId].rawPayload.predictedGas)),
         last.result.intensity)

\* a full history of differing values whose newest is no whole number and
\* differs from the intensity returned
C14_FullMixedHistory ==
  /\ IsSample /\ last.pushed
  /\ Len(intensityHistory["u1"]) = 5
  /\ intensityHistory["u1"][1] # intensityHistory["u1"][4]
  /\ intensityHistory["u1"][5].n % 1000 # 0
  /\ last.result.intensity.n * 1000 # intensityHistory["u1"][5].n
  /\ last.result.intensity.n \in 2..9

\* every entry of the history was pushed at or after the time `since`
PushedSince(h, log, since) ==
  \A i \in 1..Len(h) : log[Len(log) - Len(h) + i].seq >= since

\* C15 (as stated): after a scored sample the user's history holds only
\* values pushed under the session the sample was scored against; the first
\* sample after a startSession leaves exactly one entry.
C15_NoValueOfEarlierSession ==
  (IsSample /\ last.pushed)
    => PushedSince(intensityHistory[last.userId], pushLog[last.userId],
                   sessionStore[last.userId].startTime)

\* the stored session is the one the arguments call for
SessionFrom(session, arguments) ==
  /\ session.plannedIntensity = arguments.plannedIntensity
  /\ session.baseline.temp = arguments.temp /\ session.baseline.hum = arguments.hum
  /\ session.baseline.gas = arguments.gas /\ session.baseline.hr = arguments.hr

\* C16 (as stated): once no startSession call is suspended, every user's
\* session is the one the calls leave when applied one after the other in
\* the order they were invoked: none if a resetSession was invoked last,
\* else the session of the startSession invoked last.
C16_InvocationOrder ==
  pending = {}
    => /\ DOMAIN sessionStore = DOMAIN intended
       /\ \A u \in DOMAIN intended : SessionFrom(sessionStore[u], intended[u])

\* the newest five pushes of the log carry one value and were all made at
\* or after the time `since`
FiveAlike(log, since) ==
  /\ Len(log) >= 5
  /\ \A i \in (Len(log) - 4)..Len(log) :
       log[i].v = log[Len(log)].v /\ log[i].seq >= since

\* C17: the fifth and every further sample in a row that is scored alike
\* under one session returns the rounding of its own discretized value, as
\* it would on an empty history, whatever the history held before.
C17_ConvergesInFive ==
  (/\ IsSample /\ last.pushed
   /\ FiveAlike(pushLog[last.userId], sessionStore[last.userId].startTime))
    => /\ IsFiniteNum(last.result.intensity)
       /\ IsRoundedClamped(last.result.intensity.n,
                           pushLog[last.userId][Len(pushLog[last.userId])].v.n, 1)

\* five samples scored alike (neither 1 nor 10) behind a different value
C17_FiveAfterAnother ==
  /\ IsSample /\ last.pushed
  /\ Len(pushLog["u1"]) >= 6
  /\ FiveAlike(pushLog["u1"], sessionStore["u1"].startTime)
  /\ pushLog["u1"][Len(pushLog["u1"]) - 5].v # pushLog["u1"][Len(pushLog["u1"])].v
  /\ last.result.intensity.n \in 2..9

====
